---------------------------- MODULE Spec2Model ----------------------------
(***************************************************************************)
(* Model of EcommerceCrawler (src/src/crawler/ecommerce_crawler.py):       *)
(* crawl() runs _crawl_site over the configs in batches; _crawl_site runs  *)
(* _crawl_page on the seed; _crawl_page fans out one asyncio task per      *)
(* discovered link and gathers them.                                       *)
(*                                                                         *)
(* Scheduling: asyncio tasks are cooperative.  A task runs without         *)
(* interruption from one suspension point to the next, so every action     *)
(* below is the code between two suspension points of one task.  The       *)
(* suspension points are the network fetch (session.get / response.text,   *)
(* lines 47-51: nothing shared is read or written between the two, so they *)
(* are one wait here) and asyncio.gather (lines 69 and 94).  Which of the  *)
(* runnable tasks runs next is left open: the iteration order of the set   *)
(* of discovered URLs and the completion order of fetches are not fixed by *)
(* the code.                                                               *)
(*                                                                         *)
(* A URL is a pair <<host, page>>; <<d, 0>> is the seed https://{d}.       *)
(* Host 0 is a host that is no configured domain.  UrlText gives the text  *)
(* of a URL, on which the classifier works: _is_product_url and            *)
(* analyze_page_content (src/src/detectors/product_detector.py) are        *)
(* operators on strings, a string being the sequence of its characters.    *)
(* The standalone crawler src/crawler.py is the same machine but for the   *)
(* steps told apart by the variable impl.                                  *)
(***************************************************************************)
EXTENDS Integers, Sequences, FiniteSets, TLC

\* ---------------------------------------------------------------- bounds
MaxPage == 2
MaxDepthBound == 2
MaxPagesBound == 3
MaxDomains == 3
MaxConc == 2

\* default of the constructor's concurrent_sites parameter
DefaultConcurrentSites == 5

\* the limits of a CrawlConfig built from a domain alone
DefaultMaxDepth == 3
DefaultMaxPages == 1000

Pages == 0..MaxPage
Hosts == 0..MaxDomains
Url == Hosts \X Pages

VARIABLES
    configs,           \* self.configs: sequence of CrawlConfig
    concurrent_sites,  \* self.concurrent_sites
    web,               \* the sites as the fetch collaborator answers for them
    results,           \* self.results: dict domain -> set of product URLs
    seen_urls,         \* self.seen_urls: dict domain -> set of URLs
    crawlPc,           \* position of crawl(): "loop", "gather", "done", "raised"
    i,                 \* loop variable of crawl() (0-based start of the batch)
    site,              \* per config index: state of its _crawl_site task
    tasks,             \* the _crawl_page calls made so far, each with its state
    fetched,           \* per URL: number of session.get requests issued
    crawled,           \* per config index: number of _crawl_site calls started
    impl,              \* the file the crawler is of: "package" or "standalone"
    run,               \* what follows crawl(): save_results and get_statistics
    call               \* a call of the classifier on its own: inputs and result

vars == <<configs, concurrent_sites, web, results, seen_urls, crawlPc, i,
          site, tasks, fetched, crawled, impl, run, call>>

\* ------------------------------------------------------------- helpers
Min(a, b) == IF a < b THEN a ELSE b

\* d[key] = value on a Python dict (the key is added when absent)
DictSet(d, key, value) ==
    [k \in DOMAIN d \cup {key} |-> IF k = key THEN value ELSE d[k]]

\* mutant of DictAdd: one set is shared by all the keys
DictAddShared(d, key, x) == [k \in DOMAIN d |-> d[k] \cup {x}]

\* d[key].add(x)
DictAdd(d, key, x) == [d EXCEPT ![key] = @ \cup {x}]

\* start_url = f"https://{config.domain}"
StartUrl(config) == <<config.domain, 0>>

\* mutant of Batch: the slice has no upper end, configs[i:]
BatchToEnd(start) == (start + 1)..Len(configs)

\* configs[i:i + concurrent_sites], as 1-based indices into configs
Batch(start) == (start + 1)..Min(start + concurrent_sites, Len(configs))

DigitChars == <<"0", "1", "2", "3", "4", "5", "6", "7", "8", "9">>

\* the text of the URL <<host, page>>: the hosts are shop00, shop01, ...; the
\* seed is https://{host} and page p is https://{host}/p
UrlText(u) ==
    <<"h", "t", "t", "p", "s", ":", "/", "/">>
        \o <<"s", "h", "o", "p", "0", DigitChars[u[1] + 1]>>
        \o (IF u[2] = 0 THEN <<>> ELSE <<"/", DigitChars[u[2] + 1]>>)

\* ------------------------------------------------------- _extract_urls
\* mutant of ExtractUrls: the netloc is not compared
ExtractUrlsAnyHost(anchors, base_url) == anchors

\* the anchors of the page, already joined to the base URL, whose netloc is
\* the netloc of the base URL
ExtractUrls(anchors, base_url) == {u \in anchors : u[1] = base_url[1]}

\* ====================================================== the classifier
\* A str is modelled as the sequence of its characters, a character as the
\* string of that character, or as its Unicode name when it is outside ASCII
\* or a control character that has no escape.
\* the characters re.IGNORECASE compares as another one, each with the small
\* letter it is compared as: the capital letters, and the four characters
\* outside ASCII whose case folding is an ASCII letter
LowerCase ==
    ("LATIN SMALL LETTER LONG S" :> "s") @@ ("KELVIN SIGN" :> "k") @@
    ("LATIN CAPITAL LETTER I WITH DOT ABOVE" :> "i") @@
    ("LATIN SMALL LETTER DOTLESS I" :> "i") @@
    ("A" :> "a") @@ ("B" :> "b") @@ ("C" :> "c") @@ ("D" :> "d") @@
    ("E" :> "e") @@ ("F" :> "f") @@ ("G" :> "g") @@ ("H" :> "h") @@
    ("I" :> "i") @@ ("J" :> "j") @@ ("K" :> "k") @@ ("L" :> "l") @@
    ("M" :> "m") @@ ("N" :> "n") @@ ("O" :> "o") @@ ("P" :> "p") @@
    ("Q" :> "q") @@ ("R" :> "r") @@ ("S" :> "s") @@ ("T" :> "t") @@
    ("U" :> "u") @@ ("V" :> "v") @@ ("W" :> "w") @@ ("X" :> "x") @@
    ("Y" :> "y") @@ ("Z" :> "z")

LowerChar(c) == IF c \in DOMAIN LowerCase THEN LowerCase[c] ELSE c

\* the text as re.IGNORECASE compares it
Lower(s) == [n \in DOMAIN s |-> LowerChar(s[n])]

\* [a-zA-Z0-9] under re.IGNORECASE, on a lowered character
AlnumChars ==
    {"LATIN SMALL LETTER LONG S", "KELVIN SIGN",
     "LATIN CAPITAL LETTER I WITH DOT ABOVE", "LATIN SMALL LETTER DOTLESS I",
     "a", "b", "c", "d", "e", "f", "g", "h", "i", "j", "k", "l", "m", "n",
     "o", "p", "q", "r", "s", "t", "u", "v", "w", "x", "y", "z", "0", "1",
     "2", "3", "4", "5", "6", "7", "8", "9"}

Alnum(c) == c \in AlnumChars

\* the elements of a list
Range(list) == {list[n] : n \in DOMAIN list}

\* re.search of a literal
Contains(s, sub) ==
    \E n \in 1..(Len(s) - Len(sub) + 1) : SubSeq(s, n, n + Len(sub) - 1) = sub

\* s[n:]
From(s, n) == SubSeq(s, n, Len(s))

\* ProductDetector.exclude_patterns (src/src/detectors/product_detector.py
\* lines 8-16)
ExcludePatterns ==
    {<<"/", "c", "a", "r", "t">>,
     <<"/", "c", "h", "e", "c", "k", "o", "u", "t">>,
     <<"/", "l", "o", "g", "i", "n">>,
     <<"/", "a", "c", "c", "o", "u", "n", "t">>,
     <<"/", "s", "e", "a", "r", "c", "h">>,
     <<"/", "c", "a", "t", "e", "g", "o", "r", "y">>,
     <<"/", "w", "i", "s", "h", "l", "i", "s", "t">>}

\* mutant of IsExcluded: no URL is excluded
NothingExcluded(url) == FALSE

\* line 170: any(re.search(pattern, url, re.IGNORECASE) for the exclude patterns)
IsExcluded(url) ==
    LET s == Lower(url)
    IN  \E pattern \in ExcludePatterns : Contains(s, pattern)

\* CrawlConfig.__post_init__ (src/src/config/crawl_config.py lines 14-31): the
\* default product patterns, by their regular expressions
DefaultPatterns ==
    {"/product[s]?/", "/item[s]?/", "/p/", "/dp/",
     "(?<=/)[a-zA-Z0-9]{6,}(?=/|$)", "-pd-", "prod[_-]id",
     "/(?:men|women|kids|home)/[^/]+/[^/]+$", "/catalog/", "/shop/", "/detail/",
     "\\?.*(?:product[_-]id|pid|itemid)="}

\* $ without re.MULTILINE: the position n is past the end of the text, or just
\* before a newline that ends it
AtEnd(s, n) == n = Len(s) + 1 \/ (n = Len(s) /\ s[n] = "\n")

\* (?<=/)[a-zA-Z0-9]{6,}(?=/|$): six or more letters or digits that follow a
\* slash and are followed by a slash or by the end of the text
SkuSearch(s) ==
    \E a \in 2..Len(s) : \E b \in a..Len(s) :
        /\ s[a - 1] = "/"
        /\ b - a + 1 >= 6
        /\ \A n \in a..b : Alnum(s[n])
        /\ AtEnd(s, b + 1) \/ s[b + 1] = "/"

\* /(?:men|women|kids|home)/[^/]+/[^/]+$: after the word exactly two more
\* segments, both non-empty, up to the end of the text ([^/] matches a
\* newline, so a newline that ends the text is part of the last segment)
DepartmentSearch(s) ==
    \E word \in {<<"/", "m", "e", "n", "/">>,
                     <<"/", "w", "o", "m", "e", "n", "/">>,
                     <<"/", "k", "i", "d", "s", "/">>,
                     <<"/", "h", "o", "m", "e", "/">>} :
        \E n \in 1..(Len(s) - Len(word) + 1) :
            /\ SubSeq(s, n, n + Len(word) - 1) = word
            /\ LET rest == From(s, n + Len(word))
               IN  \E m \in 2..(Len(rest) - 1) :
                      \A j \in 1..Len(rest) : rest[j] = "/" <=> j = m

\* \?.*(?:product[_-]id|pid|itemid)=: a question mark and after it, with no
\* newline between them (the dot matches none), one of the parameter names
\* with its equals sign
QuerySearch(s) ==
    \E n \in 1..Len(s) :
        /\ s[n] = "?"
        /\ \E name \in {<<"p", "r", "o", "d", "u", "c", "t", "_", "i", "d", "=">>,
                              <<"p", "r", "o", "d", "u", "c", "t", "-", "i", "d", "=">>,
                              <<"p", "i", "d", "=">>,
                              <<"i", "t", "e", "m", "i", "d", "=">>} :
              \E m \in (n + 1)..(Len(s) - Len(name) + 1) :
                  /\ SubSeq(s, m, m + Len(name) - 1) = name
                  /\ \A j \in (n + 1)..(m - 1) : s[j] # "\n"

\* re.search(pattern, url, re.IGNORECASE) for the patterns of DefaultPatterns
Search(pattern, url) ==
    LET s == Lower(url)
    IN  CASE pattern = "/product[s]?/" ->
                Contains(s, <<"/", "p", "r", "o", "d", "u", "c", "t", "/">>) \/ Contains(s, <<"/", "p", "r", "o", "d", "u", "c", "t", "s", "/">>)
          [] pattern = "/item[s]?/" ->
                Contains(s, <<"/", "i", "t", "e", "m", "/">>) \/ Contains(s, <<"/", "i", "t", "e", "m", "s", "/">>)
          [] pattern = "/p/" -> Contains(s, <<"/", "p", "/">>)
          [] pattern = "/dp/" -> Contains(s, <<"/", "d", "p", "/">>)
          [] pattern = "(?<=/)[a-zA-Z0-9]{6,}(?=/|$)" -> SkuSearch(s)
          [] pattern = "-pd-" -> Contains(s, <<"-", "p", "d", "-">>)
          [] pattern = "prod[_-]id" ->
                Contains(s, <<"p", "r", "o", "d", "_", "i", "d">>) \/ Contains(s, <<"p", "r", "o", "d", "-", "i", "d">>)
          [] pattern = "/(?:men|women|kids|home)/[^/]+/[^/]+$" -> DepartmentSearch(s)
          [] pattern = "/catalog/" -> Contains(s, <<"/", "c", "a", "t", "a", "l", "o", "g", "/">>)
          [] pattern = "/shop/" -> Contains(s, <<"/", "s", "h", "o", "p", "/">>)
          [] pattern = "/detail/" -> Contains(s, <<"/", "d", "e", "t", "a", "i", "l", "/">>)
          [] pattern = "\\?.*(?:product[_-]id|pid|itemid)=" -> QuerySearch(s)

\* line 176: any(re.search(pattern, url, re.IGNORECASE) for pattern in patterns)
UrlPatternSignal(url, patterns) == \E pattern \in patterns : Search(pattern, url)

\* the least index from n on whose character is one of chars, Len(s) + 1 when
\* there is none
Find(s, n, chars) ==
    IF \E m \in n..Len(s) : s[m] \in chars
    THEN CHOOSE m \in n..Len(s) :
            s[m] \in chars /\ \A j \in n..(m - 1) : s[j] \notin chars
    ELSE Len(s) + 1

\* the characters of s that are not in chars, in their order
Without(s, chars) ==
    LET Kept(c) == c \notin chars
    IN  SelectSeq(s, Kept)

RECURSIVE SplitAt(_, _)
\* str.split(sep): one part more than there are separators, empty parts
\* included
SplitAt(s, sep) ==
    LET at == Find(s, 1, {sep})
    IN  IF at > Len(s)
        THEN <<s>>
        ELSE <<SubSeq(s, 1, at - 1)>> \o SplitAt(From(s, at + 1), sep)

\* ------------------------------------------------------------ urlparse
\* urllib.parse.urlparse, which line 179 calls, as Python 3.11 defines it.
\* The characters urlsplit strips from the front of a URL: U+0000 to U+0020
\* (a control character that has no escape is the string of its name)
WhatwgC0ControlOrSpace ==
    {"NULL", "START OF HEADING", "START OF TEXT", "END OF TEXT",
     "END OF TRANSMISSION", "ENQUIRY", "ACKNOWLEDGE", "ALERT", "BACKSPACE",
     "\t", "\n", "LINE TABULATION", "\f", "\r", "SHIFT OUT", "SHIFT IN",
     "DATA LINK ESCAPE", "DEVICE CONTROL ONE", "DEVICE CONTROL TWO",
     "DEVICE CONTROL THREE", "DEVICE CONTROL FOUR", "NEGATIVE ACKNOWLEDGE",
     "SYNCHRONOUS IDLE", "END OF TRANSMISSION BLOCK", "CANCEL", "END OF MEDIUM",
     "SUBSTITUTE", "ESCAPE", "INFORMATION SEPARATOR FOUR",
     "INFORMATION SEPARATOR THREE", "INFORMATION SEPARATOR TWO",
     "INFORMATION SEPARATOR ONE", " "}

\* the characters urlsplit removes wherever they are
UnsafeUrlBytesToRemove == {"\t", "\r", "\n"}

AsciiLetters ==
    {"a", "b", "c", "d", "e", "f", "g", "h", "i", "j", "k", "l", "m", "n",
     "o", "p", "q", "r", "s", "t", "u", "v", "w", "x", "y", "z",
     "A", "B", "C", "D", "E", "F", "G", "H", "I", "J", "K", "L", "M", "N",
     "O", "P", "Q", "R", "S", "T", "U", "V", "W", "X", "Y", "Z"}

\* scheme_chars: the characters of a scheme
SchemeChars == AsciiLetters \cup Range(DigitChars) \cup {"+", "-", "."}

\* uses_params: the schemes for which urlparse splits the parameters off
UsesParams ==
    {<<>>, <<"f", "t", "p">>, <<"h", "d", "l">>,
     <<"p", "r", "o", "s", "p", "e", "r", "o">>, <<"h", "t", "t", "p">>,
     <<"i", "m", "a", "p">>, <<"h", "t", "t", "p", "s">>,
     <<"s", "h", "t", "t", "p">>, <<"r", "t", "s", "p">>,
     <<"r", "t", "s", "p", "s">>, <<"r", "t", "s", "p", "u">>,
     <<"s", "i", "p">>, <<"s", "i", "p", "s">>, <<"m", "m", "s">>,
     <<"s", "f", "t", "p">>, <<"t", "e", "l">>}

\* the characters outside ASCII that NFKC normalization turns into text with
\* one of / ? # @ : in it, for which _checknetloc raises
NfkcRejected ==
    {"DOUBLE QUESTION MARK", "QUESTION EXCLAMATION MARK",
     "EXCLAMATION QUESTION MARK", "ACCOUNT OF", "ADDRESSED TO THE SUBJECT",
     "CARE OF", "CADA UNA", "DOUBLE COLON EQUAL",
     "PRESENTATION FORM FOR VERTICAL COLON",
     "PRESENTATION FORM FOR VERTICAL QUESTION MARK", "SMALL COLON",
     "SMALL QUESTION MARK", "SMALL NUMBER SIGN", "SMALL COMMERCIAL AT",
     "FULLWIDTH NUMBER SIGN", "FULLWIDTH SOLIDUS", "FULLWIDTH COLON",
     "FULLWIDTH QUESTION MARK", "FULLWIDTH COMMERCIAL AT"}

HexDigits ==
    Range(DigitChars) \cup {"a", "b", "c", "d", "e", "f", "A", "B", "C", "D", "E", "F"}

\* int(octet_str, 10) of up to three decimal digits
DecimalValue(digits) ==
    LET Digit(n) == (CHOOSE d \in DOMAIN DigitChars : DigitChars[d] = digits[n]) - 1
    IN  CASE Len(digits) = 1 -> Digit(1)
          [] Len(digits) = 2 -> 10 * Digit(1) + Digit(2)
          [] Len(digits) = 3 -> 100 * Digit(1) + 10 * Digit(2) + Digit(3)

\* ipaddress.IPv4Address._parse_octet does not raise
IsOctet(octet_str) ==
    /\ octet_str # <<>>
    /\ Range(octet_str) \subseteq Range(DigitChars)
    /\ Len(octet_str) <= 3
    /\ Len(octet_str) > 1 => octet_str[1] # "0"
    /\ DecimalValue(octet_str) <= 255

\* ipaddress.IPv4Address(ip_str) does not raise: four octets between dots
IsIPv4Address(ip_str) ==
    LET octets == SplitAt(ip_str, ".")
    IN  Len(octets) = 4 /\ \A n \in DOMAIN octets : IsOctet(octets[n])

\* ipaddress.IPv6Address._parse_hextet does not raise
IsHextet(hextet_str) ==
    /\ hextet_str # <<>>
    /\ Range(hextet_str) \subseteq HexDigits
    /\ Len(hextet_str) <= 4

\* _ip_int_from_string with a '::' at the part skip: a colon at either end
\* is part of the '::', the '::' stands for one part or more of the eight, and
\* the parts before and after it are hextets
SkippedAccepted(parts, skip) ==
    LET n == Len(parts)
        parts_hi == IF parts[1] = <<>> THEN 0 ELSE skip - 1
        parts_lo == IF parts[n] = <<>> THEN 0 ELSE n - skip
    IN  /\ parts[1] = <<>> => skip = 2
        /\ parts[n] = <<>> => skip = n - 1
        /\ parts_hi + parts_lo <= 7
        /\ \A k \in (1..parts_hi) \cup ((n - parts_lo + 1)..n) : IsHextet(parts[k])

\* _ip_int_from_string on the parts: at most nine, at most one empty inside
\* (the '::'), and eight hextets when there is none
PartsAccepted(parts) ==
    LET skips == {k \in 2..(Len(parts) - 1) : parts[k] = <<>>}
    IN  /\ Len(parts) <= 9
        /\ Cardinality(skips) <= 1
        /\ IF skips = {}
           THEN Len(parts) = 8 /\ \A k \in DOMAIN parts : IsHextet(parts[k])
           ELSE SkippedAccepted(parts, CHOOSE k \in skips : TRUE)

\* the parts with a last part in dotted form replaced by the two hextets of
\* that IPv4 address
WithoutDotted(split) ==
    IF "." \in Range(split[Len(split)])
    THEN SubSeq(split, 1, Len(split) - 1) \o <<<<"0">>, <<"0">>>>
    ELSE split

\* _ip_int_from_string on the parts between colons: three or more, the last
\* an IPv4 address when it has a dot
SplitAccepted(split) ==
    /\ Len(split) >= 3
    /\ "." \in Range(split[Len(split)]) => IsIPv4Address(split[Len(split)])
    /\ PartsAccepted(WithoutDotted(split))

\* ipaddress.IPv6Address(address) does not raise: an optional scope id after
\* a percent sign, and before it an address that is not empty
IsIPv6Address(address) ==
    LET percent == Find(address, 1, {"%"})
    IN  /\ percent <= Len(address)
            => percent < Len(address) /\ "%" \notin Range(From(address, percent + 1))
        /\ percent > 1
        /\ SplitAccepted(SplitAt(SubSeq(address, 1, percent - 1), ":"))

\* _check_bracketed_host does not raise: v, hexadecimal digits, a dot and
\* more (an IPvFuture address), or an IPv6 address
BracketedHostAccepted(hostname) ==
    IF hostname # <<>> /\ hostname[1] = "v"
    THEN \E dot \in 3..(Len(hostname) - 1) :
            /\ hostname[dot] = "."
            /\ \A n \in 2..(dot - 1) : hostname[n] \in HexDigits
    ELSE IsIPv6Address(hostname)

\* the URL without the characters urlsplit drops
Cleaned(url) ==
    Without(From(url, Find(url, 1, {c \in Range(url) : c \notin WhatwgC0ControlOrSpace})),
            UnsafeUrlBytesToRemove)

\* where the colon that ends the scheme is: the first colon, when a letter
\* and then scheme characters only come before it, and 0 otherwise
SchemeEnd(text) ==
    LET colon == Find(text, 1, {":"})
    IN  IF /\ 1 < colon
           /\ colon <= Len(text)
           /\ text[1] \in AsciiLetters
           /\ \A n \in 1..(colon - 1) : text[n] \in SchemeChars
        THEN colon
        ELSE 0

\* _splitnetloc: after //, the netloc goes up to the first / ? or #
SplitNetloc(scheme, url) ==
    IF Len(url) >= 2 /\ url[1] = "/" /\ url[2] = "/"
    THEN [scheme |-> scheme,
          netloc |-> SubSeq(url, 3, Find(url, 3, {"/", "?", "#"}) - 1),
          url |-> From(url, Find(url, 3, {"/", "?", "#"}))]
    ELSE [scheme |-> scheme, netloc |-> <<>>, url |-> url]

\* urlsplit, up to the netloc: the scheme (lowered, empty when the text before
\* the first colon is not one), the netloc (empty when no // follows the
\* scheme) and what follows it
SplitScheme(text, colon) ==
    SplitNetloc(Lower(SubSeq(text, 1, colon - 1)), From(text, colon + 1))

UrlSplit(url) == SplitScheme(Cleaned(url), SchemeEnd(Cleaned(url)))

\* netloc.partition('[')[2].partition(']')[0]
BracketedHost(after) == SubSeq(after, 1, Find(after, 1, {"]"}) - 1)

\* urlsplit raises ValueError: a netloc with one square bracket and not the
\* other, with brackets around a host that is no IPv6 or IPvFuture address, or
\* with a character that normalization turns into a delimiter
NetlocRejected(netloc) ==
    \/ ("[" \in Range(netloc)) # ("]" \in Range(netloc))
    \/ /\ "[" \in Range(netloc)
       /\ "]" \in Range(netloc)
       /\ ~BracketedHostAccepted(
              BracketedHost(From(netloc, Find(netloc, 1, {"["}) + 1)))
    \/ Range(netloc) \cap NfkcRejected # {}

\* _splitparams: the path without the parameters of its last segment (from
\* the first semicolon of that segment on)
SplitParams(path) ==
    LET slashes == {n \in DOMAIN path : path[n] = "/"}
        last == IF slashes = {} THEN 1
                ELSE CHOOSE n \in slashes : \A m \in slashes : m <= n
    IN  SubSeq(path, 1, Find(path, last, {";"}) - 1)

\* the path of urlparse: for a scheme of uses_params without the parameters
PathOf(scheme, path) ==
    IF scheme \in UsesParams THEN SplitParams(path) ELSE path

\* urlparse on what urlsplit found: it raises ValueError, or its path is what
\* follows the netloc, up to the query or the fragment
Parsed(split) ==
    IF NetlocRejected(split.netloc)
    THEN [raised |-> TRUE, path |-> <<>>]
    ELSE [raised |-> FALSE,
          path |-> PathOf(split.scheme,
                          SubSeq(split.url, 1, Find(split.url, 1, {"?", "#"}) - 1))]

\* urlparse(url)
Urlparse(url) == Parsed(UrlSplit(url))

\* str.strip('/'): the slashes at the two ends are dropped, those inside stay
Strip(s) ==
    IF \A n \in DOMAIN s : s[n] = "/"
    THEN <<>>
    ELSE SubSeq(s, CHOOSE a \in DOMAIN s :
                      s[a] # "/" /\ \A j \in 1..(a - 1) : s[j] = "/",
                   CHOOSE b \in DOMAIN s :
                      s[b] # "/" /\ \A j \in (b + 1)..Len(s) : s[j] = "/")

\* str.split('/')
Split(s) == SplitAt(s, "/")

\* line 179: urlparse(url).path.strip('/').split('/'), or the ValueError of
\* urlparse
Segments(parsed) ==
    IF parsed.raised
    THEN [raised |-> TRUE, path_segments |-> <<>>]
    ELSE [raised |-> FALSE, path_segments |-> Split(Strip(parsed.path))]

PathSegments(url) == Segments(Urlparse(url))

\* line 180: 2 <= len(path_segments) <= 4
PathShapeSignal(path_segments) ==
    2 <= Len(path_segments) /\ Len(path_segments) <= 4

\* A float is modelled by the tenth it is nearest to and its distance from the
\* double nearest to that tenth, in units in the last place: Float(6, 1) is
\* 0.6000000000000001 and Float(6, 0) is 0.6.
Float(tenths, ulps) == <<tenths, ulps>>

\* float addition (IEEE 754 double, round to nearest even) on the values the
\* weights can make
FloatAdd(a, b) ==
    CASE a = Float(0, 0) -> b
      [] b = Float(0, 0) -> a
      [] {a, b} = {Float(2, 0), Float(4, 0)} -> Float(6, 1)
      [] a = Float(2, 0) /\ b = Float(2, 0) -> Float(4, 0)
      [] a = Float(4, 0) /\ b = Float(4, 0) -> Float(8, 0)
      [] a = Float(6, 1) /\ b = Float(2, 0) -> Float(8, 0)
      [] a = Float(6, 1) /\ b = Float(4, 0) -> Float(10, 0)
      [] a = Float(8, 0) /\ b = Float(2, 0) -> Float(10, 0)
      [] a = Float(8, 0) /\ b = Float(4, 0) -> Float(12, 1)

\* a >= b
FloatGe(a, b) == a[1] > b[1] \/ (a[1] = b[1] /\ a[2] >= b[2])

\* mutant of UrlPatternWeight: the URL pattern counts for 0.2
UrlPatternWeightLow == Float(2, 0)

\* line 177
UrlPatternWeight == Float(4, 0)

\* line 181
PathShapeWeight == Float(2, 0)

\* line 184
ContentWeight == Float(4, 0)

\* line 186
Threshold == Float(6, 0)

\* ------------------------------------------------ analyze_page_content
\* A page is modelled as the sequence of its top nodes in document order.  A
\* node is an element, with its tag, its type, id and class attributes (empty
\* when absent), the values of its other attributes and its children, or a
\* text node with its text (a comment is found like a text node).
Element(tag, type, id, class, others, children) ==
    [tag |-> tag, type |-> type, id |-> id, class |-> class, others |-> others,
     text |-> <<>>, children |-> children]

Text(string) ==
    [tag |-> "#text", type |-> "", id |-> <<>>, class |-> <<>>, others |-> <<>>,
     text |-> string, children |-> <<>>]

RECURSIVE Nodes(_)
\* the nodes of the page in document order: each one before its descendants
Nodes(nodes) ==
    IF nodes = <<>> THEN <<>>
    ELSE <<Head(nodes)>> \o Nodes(Head(nodes).children) \o Nodes(Tail(nodes))

RECURSIVE String(_)
\* tag.string: the text of the only child, or the string of the only child
\* when that is an element; empty when there is none (no child or several)
String(e) ==
    IF Len(e.children) # 1 THEN <<>>
    ELSE IF e.children[1].tag = "#text" THEN e.children[1].text
    ELSE String(e.children[1])

RECURSIVE Quoted(_)
\* the attribute values as the markup shows them, each between quotes
Quoted(values) ==
    IF values = <<>> THEN <<>>
    ELSE <<"\"">> \o Head(values) \o <<"\"">> \o Quoted(Tail(values))

RECURSIVE Markup(_)
\* the markup of the nodes, without the names of the tags and of the
\* attributes, which the parser has put in small letters: the attribute
\* values between the angle brackets, then the content
Markup(nodes) ==
    IF nodes = <<>> THEN <<>>
    ELSE LET node == Head(nodes)
         IN  (IF node.tag = "#text" THEN node.text
              ELSE <<"<">> \o Quoted(<<node.id, node.class>> \o node.others)
                       \o <<">">> \o Markup(node.children) \o <<"<", "/", ">">>)
             \o Markup(Tail(nodes))

\* str(tag)
TagText(e) == Markup(<<e>>)

\* product_indicators['schema'] (line 19): Product|ItemPage, case-sensitive
SchemaSearch(s) ==
    Contains(s, <<"P", "r", "o", "d", "u", "c", "t">>) \/ Contains(s, <<"I", "t", "e", "m", "P", "a", "g", "e">>)

\* product_indicators['class'] and ['id'] (lines 20-21):
\* product[-_]?(detail|page|view|info) under re.I
IndicatorSearch(s) ==
    \E sep \in {<<>>, <<"-">>, <<"_">>} :
        \E word \in {<<"d", "e", "t", "a", "i", "l">>, <<"p", "a", "g", "e">>,
                     <<"v", "i", "e", "w">>, <<"i", "n", "f", "o">>} :
            Contains(Lower(s), <<"p", "r", "o", "d", "u", "c", "t">> \o sep \o word)

\* line 36: size|color|quantity under re.I
ControlSearch(s) ==
    \E word \in {<<"s", "i", "z", "e">>, <<"c", "o", "l", "o", "r">>,
                 <<"q", "u", "a", "n", "t", "i", "t", "y">>} :
        Contains(Lower(s), word)

\* line 37: add to (?:cart|bag) under re.I
AddToSearch(s) ==
    Contains(Lower(s), <<"a", "d", "d", " ", "t", "o", " ", "c", "a", "r", "t">>)
        \/ Contains(Lower(s), <<"a", "d", "d", " ", "t", "o", " ", "b", "a", "g">>)

\* the nodes soup.find('script', type='application/ld+json') chooses from, by
\* their place in document order
JsonLdScripts(html) ==
    {n \in DOMAIN Nodes(html) :
        Nodes(html)[n].tag = "script" /\ Nodes(html)[n].type = "application/ld+json"}

\* lines 28-29: find returns the first JSON-LD script of the page, and only
\* its markup is searched
SchemaFound(html) ==
    /\ JsonLdScripts(html) # {}
    /\ LET schema == Nodes(html)[CHOOSE n \in JsonLdScripts(html) :
                                    \A m \in JsonLdScripts(html) : n <= m]
       IN  SchemaSearch(TagText(schema))

\* line 32: some element's id, or some element's class, matches
IndicatorFound(html) ==
    LET nodes == Nodes(html)
    IN  \/ \E n \in DOMAIN nodes : IndicatorSearch(nodes[n].id)
        \/ \E n \in DOMAIN nodes : IndicatorSearch(nodes[n].class)

\* lines 36-37: a select or button whose string matches, and a text node of
\* the page that matches add to cart
ControlsFound(html) ==
    LET nodes == Nodes(html)
    IN  /\ \E n \in DOMAIN nodes :
              /\ nodes[n].tag \in {"select", "button"}
              /\ ControlSearch(String(nodes[n]))
        /\ \E n \in DOMAIN nodes :
              nodes[n].tag = "#text" /\ AddToSearch(nodes[n].text)

\* ProductDetector.analyze_page_content
AnalyzePageContent(html) ==
    IF SchemaFound(html) THEN TRUE
    ELSE IF IndicatorFound(html) THEN TRUE
    ELSE IF ControlsFound(html) THEN TRUE
    ELSE FALSE

\* -------------------------------------------------------- _is_product_url
\* the exception urlparse raises at line 179, which _is_product_url lets
\* through to its caller
ValueError == <<"ValueError">>

\* lines 174-186 on the three signals found: the weights are added in the
\* order of the code, and nothing is returned when line 179 raised
Scored(urlSignal, parsed, contentSignal) ==
    LET start == Float(0, 0)
        afterUrl == IF urlSignal THEN FloatAdd(start, UrlPatternWeight) ELSE start
        afterPath == IF PathShapeSignal(parsed.path_segments)
                     THEN FloatAdd(afterUrl, PathShapeWeight) ELSE afterUrl
        confidence == IF contentSignal
                      THEN FloatAdd(afterPath, ContentWeight) ELSE afterPath
    IN  IF parsed.raised THEN ValueError
        ELSE <<FloatGe(confidence, Threshold), confidence>>

\* EcommerceCrawler._is_product_url: the pair (is_product, confidence), or
\* ValueError when line 179 raises
IsProductUrl(url, html, patterns) ==
    IF IsExcluded(url)
    THEN <<FALSE, Float(0, 0)>>
    ELSE Scored(UrlPatternSignal(url, patterns), PathSegments(url),
                AnalyzePageContent(html))

\* ----------------------------------------------- the pages of the web
\* a page with a JSON-LD product schema, and one with no indicator
ProductHtml ==
    <<Element("script", "application/ld+json", <<>>, <<>>, <<>>,
              <<Text(<<"P", "r", "o", "d", "u", "c", "t">>)>>)>>

PlainHtml == <<>>

\* _is_product_url for every URL of the web with either content, under the
\* default patterns: the value line 52 gets (joined with the empty function
\* so that it is tabulated once and not computed at every use)
Classification ==
    [x \in Url \X {ProductHtml, PlainHtml} |->
        IsProductUrl(UrlText(x[1]), x[2], DefaultPatterns)] @@ <<>>

\* line 52: _is_product_url(url, html, config.product_patterns)
ClassifyPage(u, html, patterns) ==
    IF patterns = DefaultPatterns /\ html \in {ProductHtml, PlainHtml}
    THEN Classification[<<u, html>>]
    ELSE IsProductUrl(UrlText(u), html, patterns)

\* -------------------------------------------------------- _crawl_page
\* mutant of ShouldVisit: the depth test is missing
ShouldVisitAnyDepth(seen, config, url, depth) == ~(url \in seen[config.domain])

\* mutant of ShouldVisit: the membership test is missing
ShouldVisitSeen(seen, config, url, depth) == ~(depth > config.max_depth)

\* line 41 negated: the visit goes on when this holds
ShouldVisit(seen, config, url, depth) ==
    ~(depth > config.max_depth \/ url \in seen[config.domain])

\* mutant of MarkSeen: the set is assigned, not added to
MarkSeenReplaces(seen, config, url) == DictSet(seen, config.domain, {url})

\* mutant of MarkSeen: the URL is not recorded
MarkSeenOmitted(seen, config, url) == seen

\* line 44
MarkSeen(seen, config, url) == DictAdd(seen, config.domain, url)

\* mutant of StatusOk: the status is not looked at
StatusIgnored(response) == TRUE

\* line 48
StatusOk(response) == response.status = 200

\* line 62: the test made for each discovered URL
HasBudget(seen, config) == Cardinality(seen[config.domain]) < config.max_pages

\* A call of _crawl_page is named by the config it crawls for and its branch:
\* the URLs from the seed down to the URL it visits.  The seed call (line 83)
\* has a branch of length 1; the task created at line 63 for discovered_url
\* extends the branch of its creator.
TaskId(k, path) == [cfg |-> k, path |-> path]

TaskUrl(t) == t.path[Len(t.path)]

\* the depth argument: 0 for the seed, depth + 1 at line 64
TaskDepth(t) == Len(t.path) - 1

TaskState(pc, outcome) == [pc |-> pc, outcome |-> outcome]

IsChild(c, t) ==
    /\ c.cfg = t.cfg
    /\ Len(c.path) = Len(t.path) + 1
    /\ SubSeq(c.path, 1, Len(t.path)) = t.path

Children(t) == {c \in DOMAIN tasks : IsChild(c, t)}

\* lines 41-44 and the call of session.get, for a task created at line 63
PageStart(t) ==
    /\ tasks[t].pc = "created"
    /\ LET config == configs[t.cfg]
       IN  IF ShouldVisit(seen_urls, config, TaskUrl(t), TaskDepth(t))
           THEN /\ seen_urls' = MarkSeen(seen_urls, config, TaskUrl(t))
                /\ fetched' = [fetched EXCEPT ![TaskUrl(t)] = @ + 1]
                /\ tasks' = [tasks EXCEPT ![t] = TaskState("fetching", "none")]
           ELSE /\ tasks' = [tasks EXCEPT ![t] = TaskState("done", "skipped")]
                /\ UNCHANGED <<seen_urls, fetched>>
    /\ UNCHANGED <<impl, run, call, configs, concurrent_sites, web, results,
                   crawlPc, i, site, crawled>>

\* lines 47-49 and 71-72: the fetch raised, or the status is not 200
FetchFail(t) ==
    /\ tasks[t].pc = "fetching"
    /\ LET response == web[TaskUrl(t)]
       IN  response.error \/ ~StatusOk(response)
    /\ tasks' = [tasks EXCEPT ![t] = TaskState("done", "failed")]
    /\ UNCHANGED <<impl, run, call, configs, concurrent_sites, web, results,
                   seen_urls, crawlPc, i, site, fetched, crawled>>

\* lines 60-66: the discovered URLs a task is created for
Scheduled(seen, config, urls) == IF HasBudget(seen, config) THEN urls ELSE {}

\* mutant of ShouldRecord: every classified page is recorded
RecordsAll(classified) == TRUE

\* line 54: if is_product
ShouldRecord(classified) == classified[1]

\* mutant of HomepageFallback: the browser rendering is there and finds every
\* other page of the site
HomepageFallbackFinds(file, url, urls, depth) ==
    IF file = "standalone" /\ urls = {} /\ depth = 0
    THEN [raised |-> FALSE, urls |-> {url[1]} \X (Pages \ {url[2]})]
    ELSE [raised |-> FALSE, urls |-> urls]

\* src/crawler.py lines 132-133: for a homepage without links the standalone
\* crawler calls self._crawl_with_playwright, which no class defines: the
\* attribute lookup raises AttributeError, caught at line 146
HomepageFallback(file, url, urls, depth) ==
    IF file = "standalone" /\ urls = {} /\ depth = 0
    THEN [raised |-> TRUE, urls |-> {}]
    ELSE [raised |-> FALSE, urls |-> urls]

\* lines 54-69, after the classification of line 52: record, extract, create
\* the child tasks; an exception of _is_product_url ends the call at lines
\* 71-72
Classified(t, classified) ==
    LET config == configs[t.cfg]
        response == web[TaskUrl(t)]
        raised == classified = ValueError
        fallback == HomepageFallback(impl, TaskUrl(t),
                                     ExtractUrls(response.anchors, TaskUrl(t)),
                                     TaskDepth(t))
        scheduled == IF raised \/ fallback.raised THEN {}
                     ELSE Scheduled(seen_urls, config, fallback.urls)
        created == {TaskId(t.cfg, Append(t.path, u)) : u \in scheduled}
    IN  /\ results' = IF ~raised /\ ShouldRecord(classified)
                      THEN DictAdd(results, config.domain, TaskUrl(t))
                      ELSE results
        /\ tasks' = [c \in DOMAIN tasks \cup created |->
                        IF c = t
                        THEN TaskState(IF scheduled = {} THEN "done" ELSE "gathering",
                                       IF raised THEN "failed" ELSE "classified")
                        ELSE IF c \in created THEN TaskState("created", "none")
                        ELSE tasks[c]]

\* lines 51-69: status 200; classify, and what follows
FetchOk(t) ==
    /\ tasks[t].pc = "fetching"
    /\ ~web[TaskUrl(t)].error
    /\ StatusOk(web[TaskUrl(t)])
    /\ Classified(t, ClassifyPage(TaskUrl(t), web[TaskUrl(t)].html,
                                  configs[t.cfg].product_patterns))
    /\ UNCHANGED <<impl, run, call, configs, concurrent_sites, web, seen_urls,
                   crawlPc, i, site, fetched, crawled>>

\* mutant of ChildrenDone: the children are not awaited
ChildrenNotAwaited(t) == TRUE

\* mutant of ChildrenDone: the wait ends only when every child classified its page
ChildrenClassified(t) == \A c \in Children(t) : tasks[c].outcome = "classified"

\* line 69: asyncio.gather(*tasks) returns when every child task is done
ChildrenDone(t) == \A c \in Children(t) : tasks[c].pc = "done"

GatherReturn(t) ==
    /\ tasks[t].pc = "gathering"
    /\ ChildrenDone(t)
    /\ tasks' = [tasks EXCEPT ![t].pc = "done"]
    /\ UNCHANGED <<impl, run, call, configs, concurrent_sites, web, results,
                   seen_urls, crawlPc, i, site, fetched, crawled>>

\* -------------------------------------------------------- _crawl_site
\* the seed call of line 83
SeedTask(k) == TaskId(k, <<StartUrl(configs[k])>>)

\* lines 76-83: reset the domain's sets, open the session and run the seed
\* visit inline (an awaited coroutine, not a task) up to its fetch
SiteStart(k) ==
    /\ site[k] = "created"
    /\ LET config == configs[k]
           seen0 == DictSet(seen_urls, config.domain, {})
           url == StartUrl(config)
       IN  /\ results' = DictSet(results, config.domain, {})
           /\ IF ShouldVisit(seen0, config, url, 0)
              THEN /\ seen_urls' = MarkSeen(seen0, config, url)
                   /\ fetched' = [fetched EXCEPT ![url] = @ + 1]
                   /\ tasks' = DictSet(tasks, SeedTask(k), TaskState("fetching", "none"))
              ELSE /\ seen_urls' = seen0
                   /\ fetched' = fetched
                   /\ tasks' = DictSet(tasks, SeedTask(k), TaskState("done", "skipped"))
    /\ site' = [site EXCEPT ![k] = "running"]
    /\ crawled' = [crawled EXCEPT ![k] = @ + 1]
    /\ UNCHANGED <<impl, run, call, configs, concurrent_sites, web, crawlPc,
                   i>>

\* mutant of SiteCaught: the exception leaves _crawl_site
SiteUncaught == "raised"

\* what the except clause of lines 85-86 leaves the site task in
SiteCaught == "done"

\* lines 76-81 and 85-86: opening the connector or the session raised
SiteError(k) ==
    /\ site[k] = "created"
    /\ results' = DictSet(results, configs[k].domain, {})
    /\ seen_urls' = DictSet(seen_urls, configs[k].domain, {})
    /\ site' = [site EXCEPT ![k] = SiteCaught]
    /\ crawled' = [crawled EXCEPT ![k] = @ + 1]
    /\ UNCHANGED <<impl, run, call, configs, concurrent_sites, web, crawlPc, i,
                   tasks, fetched>>

\* line 83 returns, the session closes, _crawl_site returns
SiteReturn(k) ==
    /\ site[k] = "running"
    /\ tasks[SeedTask(k)].pc = "done"
    /\ site' = [site EXCEPT ![k] = "done"]
    /\ UNCHANGED <<impl, run, call, configs, concurrent_sites, web, results,
                   seen_urls, crawlPc, i, tasks, fetched, crawled>>

\* -------------------------------------------------------------- crawl
\* line 91: start is a value of range(0, len(configs), concurrent_sites); a
\* positive step counts up to the length, a negative one down to it
InRange(start) ==
    \/ concurrent_sites > 0 /\ start < Len(configs)
    \/ concurrent_sites < 0 /\ start > Len(configs)

\* lines 91-94: range() raises ValueError on a step of zero; otherwise the
\* next batch is sliced and its coroutines are gathered
CrawlBatch ==
    /\ crawlPc = "loop"
    /\ IF concurrent_sites = 0
       THEN crawlPc' = "raised" /\ site' = site
       ELSE /\ InRange(i)
            /\ site' = [k \in DOMAIN site |->
                           IF k \in Batch(i) THEN "created" ELSE site[k]]
            /\ crawlPc' = "gather"
    /\ UNCHANGED <<impl, run, call, configs, concurrent_sites, web, results,
                   seen_urls, i, tasks, fetched, crawled>>

\* line 94: gather returns when every site task of the batch has returned,
\* and raises as soon as one of them has raised
BatchDone ==
    /\ crawlPc = "gather"
    /\ \/ \A k \in Batch(i) : site[k] = "done"
       \/ \E k \in Batch(i) : site[k] = "raised"
    /\ IF \E k \in Batch(i) : site[k] = "raised"
       THEN crawlPc' = "raised" /\ i' = i
       ELSE crawlPc' = "loop" /\ i' = i + concurrent_sites
    /\ UNCHANGED <<impl, run, call, configs, concurrent_sites, web, results,
                   seen_urls, site, tasks, fetched, crawled>>

\* line 91: the range is exhausted
CrawlReturn ==
    /\ crawlPc = "loop"
    /\ concurrent_sites # 0
    /\ ~InRange(i)
    /\ crawlPc' = "done"
    /\ UNCHANGED <<impl, run, call, configs, concurrent_sites, web, results,
                   seen_urls, i, site, tasks, fetched, crawled>>


\* ------------------------------------------- the classifier's inputs
\* the longest path, in segments, and the longest page, in elements
MaxSegments == 5

MaxElements == 2

Scheme == <<"h", "t", "t", "p", "s", ":", "/", "/">>

HostTexts == {<<"d", ".", "i", "o">>, <<"s", "h", "o", "p", "1", "2">>}

\* path segments: empty (a doubled or trailing slash), one that makes /p/, a
\* plain one, one of six letters and digits, one that makes /cart; one that
\* makes /search with a long s, one of six letters and digits with a Kelvin
\* sign, one with parameters, one that ends with a newline
SegmentTexts ==
    {<<>>, <<"p">>, <<"x">>, <<"a", "b", "1", "2", "c", "d">>, <<"C", "a", "r", "t">>,
     <<"LATIN SMALL LETTER LONG S", "e", "a", "r", "c", "h">>,
     <<"KELVIN SIGN", "2", "3", "4", "5", "6">>,
     <<"x", ";", "y">>,
     <<"a", "b", "c", "d", "e", "f", "\n">>}

PlainSegmentTexts == {<<>>, <<"p">>, <<"x">>}

QueryTexts == {<<>>, <<"?", "p", "i", "d", "=", "1">>}

RECURSIVE JoinPath(_)
\* every segment after a slash
JoinPath(segments) ==
    IF segments = <<>> THEN <<>>
    ELSE <<"/">> \o Head(segments) \o JoinPath(Tail(segments))

SeqsUpTo(S, n) == UNION {[1..m -> S] : m \in 0..n}

\* what comes before the path in the URLs urlparse treats in another way:
\* a scheme without parameters, one in capitals, none, no netloc, a scheme
\* that is none, control characters and a space at the front; a netloc with
\* one bracket, with an IPv6 address, with an IPv4 address in an IPv6 one,
\* with an IPv4 address, with too many parts, with two '::', with a scope id,
\* with an IPvFuture address and with a bad one, with a character that
\* normalization turns into a/c
OtherStarts ==
    {<<"w", "s", ":", "/", "/", "d", ".", "i", "o">>,
     <<"H", "T", "T", "P", "S", ":", "/", "/", "d", ".", "i", "o">>,
     <<"/", "/", "d", ".", "i", "o">>,
     <<"d", ".", "i", "o">>,
     <<"w", "s", ":", "d", ".", "i", "o">>,
     <<"1", "w", "s", ":", "/", "/", "d", ".", "i", "o">>,
     <<"START OF HEADING", "\f", " ">> \o Scheme \o <<"d", ".", "i", "o">>,
     Scheme \o <<"[", "d", ".", "i", "o">>,
     Scheme \o <<"d", ".", "i", "o", "]">>,
     Scheme \o <<"[", ":", ":", "1", "]">>,
     Scheme \o <<"[", ":", ":", "f", "f", "f", "f", ":", "1", ".", "2", ".", "3", ".", "4", "]", ":", "8", "0">>,
     Scheme \o <<"[", "1", ".", "2", ".", "3", ".", "4", "]">>,
     Scheme \o <<"[", "1", ":", "2", ":", "3", ":", "4", ":", "5", ":", "6", ":", "7", ":", "8", ":", "9", "]">>,
     Scheme \o <<"[", "1", ":", ":", "2", ":", ":", "3", "]">>,
     Scheme \o <<"[", "f", "e", "8", "0", ":", ":", "1", "%", "e", "t", "h", "0", "]">>,
     Scheme \o <<"[", "v", "1", ".", "x", "]">>,
     Scheme \o <<"[", "v", ".", "x", "]">>,
     Scheme \o <<"d", "ACCOUNT OF", "i", "o">>}

\* the paths after them: none, two segments, a segment with a product pattern
\* and one that is only parameters
OtherPaths ==
    {<<>>, <<"/", "a", "/", "b">>, <<"/", "p", "/", ";", "x">>}

\* URLs of up to two segments of any kind on either host, with or without a
\* query, URLs of up to MaxSegments plain segments, and the URLs urlparse
\* treats in another way
CallUrls ==
    {Scheme \o host \o JoinPath(segments) \o query :
        host \in HostTexts, segments \in SeqsUpTo(SegmentTexts, 2),
        query \in QueryTexts}
    \cup {Scheme \o <<"d", ".", "i", "o">> \o JoinPath(segments) :
            segments \in SeqsUpTo(PlainSegmentTexts, MaxSegments)}
    \cup {start \o path : start \in OtherStarts, path \in OtherPaths}

\* the elements of the pages: JSON-LD scripts of a product, of a place and with
\* the word in an attribute only, a script of another type; classes and ids
\* that match (in capitals, with a dotless i) and one that does not; a button
\* with its text (with a long s), a select whose only child holds the text, a
\* button with two children; the add to cart text in a button, and in a text
\* node beside another child
CallElements ==
    {Element("script", "application/ld+json", <<>>, <<>>, <<>>, <<Text(<<"{", "\"", "@", "t", "y", "p", "e", "\"", ":", " ", "\"", "P", "r", "o", "d", "u", "c", "t", "\"", "}">>)>>),
     Element("script", "application/ld+json", <<>>, <<>>, <<>>, <<Text(<<"{", "\"", "@", "t", "y", "p", "e", "\"", ":", " ", "\"", "P", "l", "a", "c", "e", "\"", "}">>)>>),
     Element("script", "application/ld+json", <<>>, <<>>, <<<<"I", "t", "e", "m", "P", "a", "g", "e">>>>, <<Text(<<"{", "}">>)>>),
     Element("script", "text/javascript", <<>>, <<>>, <<>>, <<Text(<<"v", "a", "r", " ", "I", "t", "e", "m", "P", "a", "g", "e">>)>>),
     Element("div", "", <<>>, <<"P", "r", "o", "d", "u", "c", "t", "-", "D", "e", "t", "a", "i", "l">>, <<>>, <<>>),
     Element("div", "", <<"p", "r", "o", "d", "u", "c", "t", "_", "i", "n", "f", "o">>, <<>>, <<>>, <<>>),
     Element("div", "", <<>>, <<"p", "r", "o", "d", "u", "c", "t", "-", "v", "LATIN SMALL LETTER DOTLESS I", "e", "w">>, <<>>, <<>>),
     Element("div", "", <<>>, <<"p", "r", "o", "d", "u", "c", "t", "s">>, <<>>, <<>>),
     Element("button", "", <<>>, <<>>, <<>>, <<Text(<<"LATIN SMALL LETTER LONG S", "i", "z", "e">>)>>),
     Element("select", "", <<>>, <<>>, <<>>, <<Element("option", "", <<>>, <<>>, <<>>, <<Text(<<"Q", "u", "a", "n", "t", "i", "t", "y">>)>>)>>),
     Element("button", "", <<>>, <<>>, <<>>, <<Text(<<"C", "o", "l", "o", "r">>), Element("b", "", <<>>, <<>>, <<>>, <<Text(<<"s">>)>>)>>),
     Element("button", "", <<>>, <<>>, <<>>, <<Text(<<"A", "d", "d", " ", "t", "o", " ", "c", "a", "r", "t">>)>>),
     Element("p", "", <<>>, <<>>, <<>>, <<Text(<<"a", "d", "d", " ", "t", "o", " ", "b", "a", "g", " ">>), Element("b", "", <<>>, <<>>, <<>>, <<Text(<<"n", "o", "w">>)>>)>>)}

CallHtmls == SeqsUpTo(CallElements, MaxElements)

\* a page without any signal, one with a product schema, one with the controls
FewHtmls ==
    {<<>>,
     <<Element("script", "application/ld+json", <<>>, <<>>, <<>>, <<Text(<<"{", "\"", "@", "t", "y", "p", "e", "\"", ":", " ", "\"", "P", "r", "o", "d", "u", "c", "t", "\"", "}">>)>>)>>,
     <<Element("button", "", <<>>, <<>>, <<>>, <<Text(<<"S", "i", "z", "e">>)>>),
       Element("p", "", <<>>, <<>>, <<>>, <<Text(<<"a", "d", "d", " ", "t", "o", " ", "b", "a", "g", " ">>), Element("b", "", <<>>, <<>>, <<>>, <<Text(<<"n", "o", "w">>)>>)>>)>>}

FewUrls ==
    {Scheme \o <<"d", ".", "i", "o">>,
     Scheme \o <<"d", ".", "i", "o", "/", "p", "/", "x">>,
     Scheme \o <<"d", ".", "i", "o", "/", "x", "/", "x", "/", "x">>,
     Scheme \o <<"d", ".", "i", "o", "/", "C", "a", "r", "t">>}

\* no call of the classifier is being looked at
NoCall == [pc |-> "none"]


\* _is_product_url(url, html, patterns) returns, or raises
IsProductUrlCall ==
    /\ call.pc = "called"
    /\ LET result == IsProductUrl(call.url, call.html, call.patterns)
       IN  call' = [call EXCEPT !.pc = IF result = ValueError THEN "raised"
                                       ELSE "classified",
                                !.result = result]
    /\ UNCHANGED <<impl, run, configs, concurrent_sites, web, results,
                   seen_urls, crawlPc, i, site, tasks, fetched, crawled>>

\* analyze_page_content(html) returns
AnalyzePageContentCall ==
    /\ call.pc = "called"
    /\ call' = [call EXCEPT !.pc = "analyzed",
                            !.result = AnalyzePageContent(call.html)]
    /\ UNCHANGED <<impl, run, configs, concurrent_sites, web, results,
                   seen_urls, crawlPc, i, site, tasks, fetched, crawled>>

\* ------------------------- save_results, get_statistics, save_logs
\* The files are a dict from path to content: "primary" is output_dir/filename,
\* "fallback" is fallback_{filename} in the working directory, "logs" a file
\* of its own for the log.  A content is the JSON document written to the file
\* (a sequence of at most one dict) and the log lines appended after it.
\* run.log holds the records save_results gave the logger, run.handler where
\* the logger writes them: to the stream of _setup_logger, to the file of
\* save_logs, or nowhere.
EmptyFile == [doc |-> <<>>, lines |-> <<>>]

\* json.dump(dict, f) into a file opened with 'w'
Json(dict) == [doc |-> <<dict>>, lines |-> <<>>]

\* the run after __init__: the package crawler has written an empty dict to
\* urls/urls.json (lines 33-36), the standalone one no file
Started(file) ==
    [pc |-> "crawl",
     files |-> IF file = "package" THEN [path \in {"primary"} |-> Json(<<>>)]
               ELSE <<>>,
     log |-> <<>>,
     handler |-> "stream",
     stats |-> <<>>]

\* the order of the URL texts: by host, the seed before its pages
UrlLess(u, v) == u[1] < v[1] \/ (u[1] = v[1] /\ u[2] < v[2])

\* list(urls): the elements of the set, each once, in some order
Lists(urls) ==
    {list \in [1..Cardinality(urls) -> urls] :
        \A a, b \in DOMAIN list : list[a] = list[b] => a = b}

\* sorted(list(urls))
Sorted(urls) ==
    CHOOSE list \in Lists(urls) :
        \A a, b \in DOMAIN list : a < b => UrlLess(list[a], list[b])

\* results_dict: lines 102-104 sort every list, src/crawler.py lines 181-184
\* leave it in the order of the set
ResultsDicts(file) ==
    IF file = "package"
    THEN {[d \in DOMAIN results |-> Sorted(results[d])]}
    ELSE {dict \in [DOMAIN results -> UNION {Lists(results[d]) : d \in DOMAIN results}] :
            \A d \in DOMAIN results : dict[d] \in Lists(results[d])}

\* logger.info / logger.error: the record goes to the handler, which appends
\* it to its file when save_logs has put a FileHandler in place; when that
\* write fails the handler swallows the error and the file is as it was
Logged(r, line, appended) ==
    [r EXCEPT !.log = Append(@, line),
              !.files = IF r.handler \in DOMAIN r.files /\ appended
                        THEN [@ EXCEPT ![r.handler].lines = Append(@, line)]
                        ELSE @]

\* whether the handler's write of a record succeeds: a stream handler or no
\* handler has no file to fail on
Appends(r) == IF r.handler \in DOMAIN r.files THEN BOOLEAN ELSE {TRUE}

\* with open(path, 'w') as f: json.dump(...): open raises and the file is as
\* it was, or open truncates the file and the write raises, or the document
\* is written
WriteOutcomes == {"refused", "empty", "written"}

\* one attempt of save_results at a path and the record it logs
Write(r, path, dict, outcome, appended) ==
    LET files == CASE outcome = "refused" -> r.files
                   [] outcome = "empty"   -> DictSet(r.files, path, EmptyFile)
                   [] outcome = "written" -> DictSet(r.files, path, Json(dict))
        line == CASE outcome = "written" /\ path = "primary"  -> "saved primary"
                  [] outcome = "written" /\ path = "fallback" -> "saved fallback"
                  [] outcome # "written" /\ path = "primary"  -> "error primary"
                  [] outcome # "written" /\ path = "fallback" -> "error fallback"
    IN  Logged([r EXCEPT !.files = files], line, appended)

\* save_results, called when crawl() has returned (src/src/main.py line 33,
\* src/crawler.py line 281).  Lines 112-113 log a failed write; src/crawler.py
\* lines 190-199 log it and try the fallback path
SaveResults ==
    /\ crawlPc = "done"
    /\ run.pc = "crawl"
    /\ \E dict \in ResultsDicts(impl) :
       \E primary \in WriteOutcomes, appended \in Appends(run) :
          LET first == Write(run, "primary", dict, primary, appended)
          IN  IF primary = "written" \/ impl = "package"
              THEN run' = [first EXCEPT !.pc = "saved"]
              ELSE \E fallback \in WriteOutcomes, again \in Appends(first) :
                      run' = [Write(first, "fallback", dict, fallback, again)
                                EXCEPT !.pc = "saved"]
    /\ UNCHANGED <<impl, call, configs, concurrent_sites, web, results,
                   seen_urls, crawlPc, i, site, tasks, fetched, crawled>>

\* save_logs of src/crawler.py (lines 212-220), which no code of the
\* repository calls: here it is called at most once, when crawl() has returned
\* and before save_results, with a path of its own or with the path of the
\* results.
\* The handlers are removed, then FileHandler opens the file for appending,
\* which creates it when it is not there, or raises
SaveLogs ==
    /\ impl = "standalone"
    /\ crawlPc = "done"
    /\ run.pc = "crawl"
    /\ run.handler = "stream"
    /\ \E filename \in {"logs", "primary"}, opened \in BOOLEAN :
          /\ run' = [run EXCEPT
                       !.handler = IF opened THEN filename ELSE "none",
                       !.files = IF opened /\ filename \notin DOMAIN @
                                 THEN DictSet(@, filename, EmptyFile) ELSE @]
    /\ UNCHANGED <<impl, call, configs, concurrent_sites, web, results,
                   seen_urls, crawlPc, i, site, tasks, fetched, crawled>>

\* mutant of Statistics: only the domains with a product URL are reported
StatisticsOfFound ==
    [d \in {e \in DOMAIN results : results[e] # {}} |->
        [product_urls |-> Cardinality(results[d]),
         total_pages_crawled |-> Cardinality(seen_urls[d])]]

\* what get_statistics returns (lines 115-123)
Statistics ==
    [d \in DOMAIN results |->
        [product_urls |-> Cardinality(results[d]),
         total_pages_crawled |-> Cardinality(seen_urls[d])]]

\* get_statistics, called after save_results (src/src/main.py line 34)
GetStatistics ==
    /\ run.pc = "saved"
    /\ run' = [run EXCEPT !.pc = "reported", !.stats = Statistics]
    /\ UNCHANGED <<impl, call, configs, concurrent_sites, web, results,
                   seen_urls, crawlPc, i, site, tasks, fetched, crawled>>

\* ------------------------------------------------------------- the web
\* the link graphs a site is drawn from, each a set of anchors per page:
\* complete (every page links to every other), star (the seed links to every
\* other page), cycle (every page links to itself and to the next one), dag
\* (every page links to the later ones; the seed also to a page of another
\* host) and leaf (no links)
GraphNames == {"complete", "star", "cycle", "dag", "leaf"}

Anchors(g, d, p) ==
    CASE g = "complete" -> {d} \X (Pages \ {p})
      [] g = "star"     -> IF p = 0 THEN {d} \X (Pages \ {0}) ELSE {}
      [] g = "cycle"    -> {<<d, p>>, <<d, (p + 1) % (MaxPage + 1)>>}
      [] g = "dag"      -> ({d} \X {q \in Pages : q > p})
                              \cup (IF p = 0 THEN {<<0, 1>>} ELSE {})
      [] g = "leaf"     -> {}

\* at most one page of a site fails: with a non-200 status or with a
\* transport error
Failures == {<<"none", 0>>} \cup ({"status", "error"} \X Pages)

\* the pages whose content has a product indicator: all, or the odd ones
ProductSets == {Pages, {p \in Pages : p % 2 = 1}}

Page(err, status, html, anchors) ==
    [error |-> err, status |-> status, html |-> html, anchors |-> anchors]

SiteWeb(d, g, f, prod) ==
    [u \in Url |->
        IF u[1] = d
        THEN Page(f = <<"error", u[2]>>,
                  IF f = <<"status", u[2]>> THEN 404 ELSE 200,
                  IF u[2] \in prod THEN ProductHtml ELSE PlainHtml,
                  Anchors(g, d, u[2]))
        ELSE Page(FALSE, 200, PlainHtml, {})]

\* CrawlConfig (src/src/config/crawl_config.py)
CrawlConfig(domain, max_depth, max_pages) ==
    [domain |-> domain, product_patterns |-> DefaultPatterns,
     max_depth |-> max_depth, max_pages |-> max_pages]

\* state after __init__ (lines 17-30) for the given configs
Constructed(cfgs, cs, w) ==
    /\ configs = cfgs
    /\ concurrent_sites = cs
    /\ web = w
    /\ results = [d \in {} |-> {}]
    /\ seen_urls = [d \in {} |-> {}]
    /\ crawlPc = "loop"
    /\ i = 0
    /\ site = [k \in 1..Len(cfgs) |-> "none"]
    /\ tasks = [t \in {} |-> TaskState("created", "none")]
    /\ fetched = [u \in Url |-> 0]
    /\ crawled = [k \in 1..Len(cfgs) |-> 0]

\* one domain, any graph of the family, any limits
InitSite ==
    \E g \in GraphNames, f \in Failures, prod \in ProductSets,
       md \in 0..MaxDepthBound, mp \in 1..MaxPagesBound :
        Constructed(<<CrawlConfig(1, md, mp)>>, DefaultConcurrentSites,
                    SiteWeb(1, g, f, prod))

\* several configs, one per domain, with the limits shared (src/src/main.py
\* lines 21-27); every site is a seed page linking to one product page, and
\* one seed may be unreachable.  concurrent_sites is the default, which
\* src/src/main.py line 29 leaves in place, or a smaller batch size; it is
\* taken to be at least 1, the size of a batch: with 0 crawl() raises at line
\* 91 and with a negative value it returns without crawling (CrawlBatch,
\* CrawlReturn)
InitBatch ==
    \E n \in 2..MaxDomains, cs \in (1..MaxConc) \cup {DefaultConcurrentSites},
       bad \in 0..MaxDomains :
        Constructed([k \in 1..n |-> CrawlConfig(k, 1, MaxPagesBound)], cs,
                    [u \in Url |->
                        Page(u = <<bad, 0>> /\ bad > 0, 200,
                             IF u[2] = 1 THEN ProductHtml ELSE PlainHtml,
                             IF u[2] = 0 THEN {<<u[1], 1>>} ELSE {})])

\* the standalone crawler (src/crawler.py) on one domain; its constructor
\* leaves the limits at their defaults.  The page that fails, if one does, is
\* the seed
InitStandalone ==
    \E g \in GraphNames, f \in {x \in Failures : x[2] = 0}, prod \in ProductSets :
        Constructed(<<CrawlConfig(1, DefaultMaxDepth, DefaultMaxPages)>>,
                    DefaultConcurrentSites, SiteWeb(1, g, f, prod))

Init ==
    /\ \/ (InitSite \/ InitBatch) /\ impl = "package"
       \/ InitStandalone /\ impl = "standalone"
    /\ run = Started(impl)
    /\ call = NoCall

\* a call of _is_product_url or of analyze_page_content on its own
InitClassifier ==
    /\ Constructed(<<>>, DefaultConcurrentSites,
                   [u \in Url |-> Page(FALSE, 200, PlainHtml, {})])
    /\ impl = "package"
    /\ run = Started(impl)
    /\ \E url \in CallUrls, html \in CallHtmls :
          /\ url \in FewUrls \/ html \in FewHtmls
          /\ call = [pc |-> "called", url |-> url, html |-> html,
                     patterns |-> DefaultPatterns, result |-> <<>>]

NextClassifier == IsProductUrlCall \/ AnalyzePageContentCall

Next ==
    \/ CrawlBatch
    \/ BatchDone
    \/ CrawlReturn
    \/ \E k \in DOMAIN site : SiteStart(k)
    \/ \E k \in DOMAIN site : SiteError(k)
    \/ \E k \in DOMAIN site : SiteReturn(k)
    \/ \E t \in DOMAIN tasks : PageStart(t)
    \/ \E t \in DOMAIN tasks : FetchFail(t)
    \/ \E t \in DOMAIN tasks : FetchOk(t)
    \/ \E t \in DOMAIN tasks : GatherReturn(t)
    \/ SaveLogs
    \/ SaveResults
    \/ GetStatistics

Spec == Init /\ [][Next]_vars

\* the event loop runs every runnable task and every started fetch returns
FairSpec == Spec /\ WF_vars(Next)

ClassifierSpec == InitClassifier /\ [][NextClassifier]_vars

\* ======================================================== properties
Domain(k) == configs[k].domain

\* the call passed the test of line 41: it inserted its URL and requested it
Visited(t) == tasks[t].pc \in {"fetching", "gathering"}
              \/ tasks[t].outcome \in {"failed", "classified"}

\* the fetch of u does not end in a status 200 response
FetchFails(u) == web[u].error \/ web[u].status # 200

IsDescendant(c, t) ==
    /\ c.cfg = t.cfg
    /\ Len(c.path) > Len(t.path)
    /\ SubSeq(c.path, 1, Len(t.path)) = t.path

TasksOf(k) == {t \in DOMAIN tasks : t.cfg = k}

\* the classifier takes the page of URL u for a product page
IsProductPage(u) == ClassifyPage(u, web[u].html, DefaultPatterns)[1]

\* C1 (as claimed): in every state, for every domain, the number of URLs in
\* seen_urls is at most max_pages
SeenWithinMaxPages ==
    \A k \in DOMAIN configs :
        Domain(k) \in DOMAIN seen_urls =>
            Cardinality(seen_urls[Domain(k)]) <= configs[k].max_pages

\* the same-host links of the seed page other than the seed itself
SeedLinks(k) ==
    ExtractUrls(web[StartUrl(configs[k])].anchors, StartUrl(configs[k]))
        \ {StartUrl(configs[k])}

\* C2 (as claimed): when the seed answers 200 and links to more than
\* max_pages - 1 distinct same-host pages (and max_depth lets links be
\* followed), the finished domain crawl has exactly max_pages URLs in
\* seen_urls and every other discovered link was never fetched
SeedFanoutStopsAtMaxPages ==
    \A k \in DOMAIN configs :
        ( /\ site[k] = "done"
          /\ SeedTask(k) \in DOMAIN tasks
          /\ ~FetchFails(StartUrl(configs[k]))
          /\ configs[k].max_depth >= 1
          /\ Cardinality(SeedLinks(k)) > configs[k].max_pages - 1 )
        => /\ Cardinality(seen_urls[Domain(k)]) = configs[k].max_pages
           /\ Cardinality({u \in SeedLinks(k) : fetched[u] > 0})
                 = configs[k].max_pages - 1

\* C3: every call that inserted or fetched its URL has depth <= max_depth, and
\* every URL in seen_urls was inserted by such a call; a page answered 200 at
\* depth max_depth is classified (and is in results if product) while every
\* task created for its links ends without inserting or fetching
DepthLimitRespected ==
    \A k \in DOMAIN configs :
        /\ \A t \in TasksOf(k) : Visited(t) => TaskDepth(t) <= configs[k].max_depth
        /\ Domain(k) \in DOMAIN seen_urls =>
              \A u \in seen_urls[Domain(k)] :
                 /\ fetched[u] >= 1
                 /\ \E t \in TasksOf(k) :
                       TaskUrl(t) = u /\ Visited(t) /\ TaskDepth(t) <= configs[k].max_depth
        /\ \A t \in TasksOf(k) :
              (TaskDepth(t) = configs[k].max_depth /\ Visited(t) /\ tasks[t].pc = "done"
                  /\ ~FetchFails(TaskUrl(t)))
              => tasks[t].outcome = "classified"
        /\ \A t \in TasksOf(k) :
              (TaskDepth(t) = configs[k].max_depth /\ tasks[t].outcome = "classified")
              => /\ IsProductPage(TaskUrl(t)) => TaskUrl(t) \in results[Domain(k)]
                 /\ \A c \in Children(t) :
                       /\ ~Visited(c)
                       /\ tasks[c].pc = "done" => tasks[c].outcome = "skipped"

\* C3 witness: a finished visit at depth max_depth of a product page, recorded
\* in results, one of whose links was dropped and is in seen_urls for no reason
DepthLimitWitness ==
    \E t \in DOMAIN tasks :
        /\ TaskDepth(t) = configs[t.cfg].max_depth
        /\ tasks[t].pc = "done"
        /\ tasks[t].outcome = "classified"
        /\ TaskUrl(t) \in results[Domain(t.cfg)]
        /\ \E c \in Children(t) :
              /\ tasks[c].outcome = "skipped"
              /\ TaskUrl(c) \notin seen_urls[Domain(t.cfg)]
              /\ fetched[TaskUrl(c)] = 0

\* C4: every URL is requested at most once, and of all the branches that
\* discovered a URL at most one passed the test of line 41
EachUrlFetchedOnce ==
    /\ \A u \in Url : fetched[u] <= 1
    /\ \A t1, t2 \in DOMAIN tasks :
          (Visited(t1) /\ Visited(t2) /\ TaskUrl(t1) = TaskUrl(t2)) => t1 = t2

\* C4 witness: two tasks created by different pages for the same URL have both
\* run; one fetched it and the other returned at line 42
FetchedOnceWitness ==
    \E t1, t2 \in DOMAIN tasks :
        /\ TaskUrl(t1) = TaskUrl(t2)
        /\ Len(t1.path) > 1
        /\ Len(t2.path) > 1
        /\ SubSeq(t1.path, 1, Len(t1.path) - 1) # SubSeq(t2.path, 1, Len(t2.path) - 1)
        /\ tasks[t1].outcome = "classified"
        /\ tasks[t2].outcome = "skipped"
        /\ fetched[TaskUrl(t1)] = 1

AllReturned ==
    /\ crawlPc = "done"
    /\ \A k \in DOMAIN site : site[k] = "done"
    /\ \A t \in DOMAIN tasks : tasks[t].pc = "done"

\* C5: when every runnable task is run and every started fetch returns, the
\* crawl finishes: every branch has terminated, every _crawl_site and crawl()
\* have returned
CrawlTerminates == <>AllReturned

\* C5 witness: the crawl has finished on a graph with a cycle: a branch came
\* back to a URL that is on its own path
TerminationWitness ==
    /\ AllReturned
    /\ \E t \in DOMAIN tasks :
          /\ tasks[t].outcome = "skipped"
          /\ \E n \in 1..(Len(t.path) - 1) : t.path[n] = TaskUrl(t)

\* C6: a call of _crawl_page that has returned has no descendant that is still
\* running, and a _crawl_site that has returned has no running call at all
ParentOutlivesSubtree ==
    /\ \A t, c \in DOMAIN tasks :
          (tasks[t].pc = "done" /\ IsDescendant(c, t)) => tasks[c].pc = "done"
    /\ \A k \in DOMAIN site :
          site[k] = "done" => \A t \in TasksOf(k) : tasks[t].pc = "done"

\* C6 witness: a call has returned after launching several children, one of
\* which launched children of its own
SubtreeWitness ==
    \E t \in DOMAIN tasks :
        /\ tasks[t].pc = "done"
        /\ Cardinality(Children(t)) >= 2
        /\ \E c \in Children(t) : Children(c) # {}

\* C7: a URL whose fetch fails stays in seen_urls, is requested once, is never
\* classified nor in results and gets no child task; and when the domain crawl
\* has returned every other URL in seen_urls was classified (and is in results
\* iff it is a product page) and every branch has returned
FailedFetchEndsOnlyItsBranch ==
    \A k \in DOMAIN configs :
        /\ \A t \in TasksOf(k) :
              (Visited(t) /\ FetchFails(TaskUrl(t)))
              => /\ TaskUrl(t) \in seen_urls[Domain(k)]
                 /\ TaskUrl(t) \notin results[Domain(k)]
                 /\ tasks[t].outcome # "classified"
                 /\ Children(t) = {}
                 /\ fetched[TaskUrl(t)] = 1
        /\ site[k] = "done" =>
              /\ \A t \in TasksOf(k) : tasks[t].pc = "done"
              /\ \A u \in seen_urls[Domain(k)] :
                    ~FetchFails(u) =>
                       /\ \E t \in TasksOf(k) :
                             TaskUrl(t) = u /\ tasks[t].outcome = "classified"
                       /\ IsProductPage(u) <=> u \in results[Domain(k)]

\* C7 witness: the domain crawl has returned; one link's fetch failed and a
\* sibling link was classified and recorded as product
FailedFetchWitness ==
    \E t, s \in DOMAIN tasks :
        /\ site[t.cfg] = "done"
        /\ s # t
        /\ s.cfg = t.cfg
        /\ Len(t.path) > 1
        /\ Len(s.path) = Len(t.path)
        /\ SubSeq(s.path, 1, Len(s.path) - 1) = SubSeq(t.path, 1, Len(t.path) - 1)
        /\ tasks[t].outcome = "failed"
        /\ tasks[s].outcome = "classified"
        /\ TaskUrl(s) \in results[Domain(t.cfg)]

\* the _crawl_site of config k ended in its except clause
SiteFailed(k) == site[k] \in {"done", "raised"} /\ SeedTask(k) \notin DOMAIN tasks

\* the domain's crawl failed: in _crawl_site, or on the fetch of its seed
DomainFailed(k) ==
    \/ SiteFailed(k)
    \/ SeedTask(k) \in DOMAIN tasks /\ tasks[SeedTask(k)].outcome = "failed"

EveryDomainCrawled ==
    /\ crawlPc = "done"
    /\ \A k \in DOMAIN configs : site[k] = "done" /\ crawled[k] = 1

\* C8: crawl() never raises, and once a domain's crawl has failed, the crawls
\* of all configured domains still start and return and crawl() returns
SiteFailureIsContained ==
    /\ [](crawlPc # "raised")
    /\ ((\E k \in DOMAIN configs : DomainFailed(k)) ~> EveryDomainCrawled)

\* C8 witness: crawl() has returned; a domain of the first batch failed, another
\* domain of that batch and a domain of a later batch have their products
SiteFailureWitness ==
    /\ crawlPc = "done"
    /\ \E k1, k2, k3 \in DOMAIN configs :
          /\ k1 \in Batch(0)
          /\ k2 \in Batch(0)
          /\ k3 \notin Batch(0)
          /\ SiteFailed(k1)
          /\ k2 # k1
          /\ results[Domain(k2)] # {}
          /\ results[Domain(k3)] # {}

\* 0-based number of the batch the config of index k is in
BatchOf(k) == (k - 1) \div concurrent_sites

\* C9: at most concurrent_sites domain crawls run at once, they are those of
\* one slice of configs; no crawl of a later batch has started while one of an
\* earlier batch has not returned; no domain is crawled twice, and after
\* crawl() every domain has been crawled once
BatchesRunInOrder ==
    /\ Cardinality({k \in DOMAIN site : site[k] \in {"created", "running"}})
          <= concurrent_sites
    /\ \A k1, k2 \in DOMAIN site :
          (site[k1] \in {"created", "running"} /\ site[k2] \in {"created", "running"})
          => BatchOf(k1) = BatchOf(k2)
    /\ \A k1, k2 \in DOMAIN site :
          (BatchOf(k1) < BatchOf(k2) /\ site[k2] # "none") => site[k1] = "done"
    /\ \A k \in DOMAIN site :
          /\ crawled[k] <= 1
          /\ site[k] \in {"none", "created"} <=> crawled[k] = 0
          /\ crawlPc = "done" => crawled[k] = 1 /\ site[k] = "done"

\* C9 witness: crawl() has returned after more than one batch, the first of
\* them with more than one domain
BatchesWitness ==
    /\ crawlPc = "done"
    /\ concurrent_sites >= 2
    /\ Len(configs) > concurrent_sites
    /\ \A k \in DOMAIN site : crawled[k] = 1

\* C10: in every state, for every domain, results is a subset of seen_urls
ProductsAreSeen ==
    \A d \in DOMAIN results :
        d \in DOMAIN seen_urls /\ results[d] \subseteq seen_urls[d]

\* C10 witness: a domain with a product URL recorded and a seen URL that is
\* no product
ProductsAreSeenWitness ==
    \E d \in DOMAIN results :
        results[d] # {} /\ results[d] # seen_urls[d]

\* C11: no step of crawl(), _crawl_site or _crawl_page takes a URL out of a
\* domain's seen_urls or drops the domain's entry, whatever the URL's fetch
\* gave
SeenOnlyGrows ==
    [][\A d \in DOMAIN seen_urls :
          d \in DOMAIN seen_urls' /\ seen_urls[d] \subseteq seen_urls'[d]]_vars

\* C11 witness: a finished domain crawl whose seen_urls holds a URL whose fetch
\* failed together with URLs that were classified
SeenGrowsWitness ==
    \E k \in DOMAIN configs :
        /\ site[k] = "done"
        /\ Domain(k) \in DOMAIN seen_urls
        /\ Cardinality(seen_urls[Domain(k)]) >= 3
        /\ \E u \in seen_urls[Domain(k)] : FetchFails(u)

\* a step of the crawl of config k: of its _crawl_site or of one of its
\* _crawl_page calls
StepOfCrawl(k) ==
    \/ SiteStart(k)
    \/ SiteError(k)
    \/ SiteReturn(k)
    \/ \E t \in TasksOf(k) :
          PageStart(t) \/ FetchFail(t) \/ FetchOk(t) \/ GatherReturn(t)

\* the two sets of a domain, absent before its _crawl_site has run
DomainState(d) ==
    <<IF d \in DOMAIN seen_urls THEN {seen_urls[d]} ELSE {},
      IF d \in DOMAIN results THEN {results[d]} ELSE {}>>

\* C12: a step of the crawl of one configured domain leaves seen_urls and
\* results of every other configured domain as they were, whether the two
\* crawls are of one batch or of two
DomainsIndependent ==
    [][\A k1, k2 \in DOMAIN configs :
          (k1 # k2 /\ StepOfCrawl(k1))
          => DomainState(Domain(k2))' = DomainState(Domain(k2))]_vars

\* C12 witness: the crawl of a later batch is running with a product URL
\* recorded, after two crawls of the first batch have recorded theirs
DomainsWitness ==
    \E k1, k2, k3 \in DOMAIN configs :
        /\ k1 # k2
        /\ k1 \in Batch(0)
        /\ k2 \in Batch(0)
        /\ k3 \notin Batch(0)
        /\ site[k3] = "running"
        /\ results[Domain(k1)] # {}
        /\ results[Domain(k2)] # {}
        /\ results[Domain(k3)] # {}

\* ------------------------------------------ claims on the classifier
\* the URL of the call matches one of the seven exclude patterns, whatever
\* the case of its letters
UrlMatchesExclude ==
    \E pattern \in ExcludePatterns :
        \E n \in 1..(Len(call.url) - Len(pattern) + 1) :
            Lower(SubSeq(call.url, n, n + Len(pattern) - 1)) = pattern

\* the three signals of a call that returned: URL pattern, path shape, content
Signals ==
    <<UrlPatternSignal(call.url, call.patterns),
      PathShapeSignal(PathSegments(call.url).path_segments),
      AnalyzePageContent(call.html)>>

\* how many of the three hold
Count(signals) == Cardinality({n \in 1..3 : signals[n]})

\* 0.4 for the URL pattern, 0.2 for the path, 0.4 for the content, added in
\* this order as floats
WeightSum(urlSignal, pathSignal, contentSignal) ==
    FloatAdd(FloatAdd(IF urlSignal THEN Float(4, 0) ELSE Float(0, 0),
                      IF pathSignal THEN Float(2, 0) ELSE Float(0, 0)),
             IF contentSignal THEN Float(4, 0) ELSE Float(0, 0))

\* C13: for a URL that matches an exclude pattern _is_product_url returns
\* (False, 0.0), whatever the body and whatever other signals hold
ExcludedIsNeverProduct ==
    (call.pc = "classified" /\ UrlMatchesExclude)
    => call.result = <<FALSE, Float(0, 0)>>

\* C13 witness: an excluded URL was classified for which the URL pattern, the
\* path shape and the content signal all hold
ExcludedWitness ==
    /\ call.pc = "classified"
    /\ UrlMatchesExclude
    /\ Count(Signals) = 3

\* C14 (as claimed): for every URL that is not excluded _is_product_url
\* returns, the confidence is the sum of the weights of the signals that hold
\* and is_product is confidence >= 0.6; with the three signals the result is
\* (True, 1.0), with exactly one the confidence is at most 0.4 and is_product
\* is False, with none the result is (False, 0.0)
ConfidenceIsWeightSum ==
    (call.pc \in {"classified", "raised"} /\ ~UrlMatchesExclude)
    => /\ call.pc = "classified"
       /\ LET signals == Signals
              count == Count(signals)
          IN  /\ call.result[2] = WeightSum(signals[1], signals[2], signals[3])
              /\ call.result[1] <=> FloatGe(call.result[2], Float(6, 0))
              /\ count = 3 => call.result = <<TRUE, Float(10, 0)>>
              /\ count = 1 => /\ FloatGe(Float(4, 0), call.result[2])
                              /\ ~call.result[1]
              /\ count = 0 => call.result = <<FALSE, Float(0, 0)>>

ContentSignalAsClaimed ==
    call.pc = "analyzed"
    => (call.result
          <=> LET nodes == Nodes(call.html)
              IN  \/ \E n \in JsonLdScripts(call.html) :
                        SchemaSearch(Markup(nodes[n].children))
                  \/ \E n \in DOMAIN nodes :
                        \/ IndicatorSearch(nodes[n].id)
                        \/ IndicatorSearch(nodes[n].class)
                  \/ /\ \E n \in DOMAIN nodes :
                           /\ nodes[n].tag \in {"select", "button"}
                           /\ ControlSearch(String(nodes[n]))
                     /\ \E n \in DOMAIN nodes :
                           nodes[n].tag = "#text" /\ AddToSearch(nodes[n].text))

\* the segments of the URL's path that are not empty
NonEmptySegments(url) ==
    LET path == Urlparse(url).path
    IN  {n \in DOMAIN Split(path) : Split(path)[n] # <<>>}

\* C20 (as claimed): the path bonus of 0.2 is in the confidence exactly when
\* the path, split on the slash with every empty segment left out, has between
\* 2 and 4 segments
PathBonusAsClaimed ==
    (call.pc = "classified" /\ ~UrlMatchesExclude)
    => LET signals == Signals
           segments == Cardinality(NonEmptySegments(call.url))
       IN  call.result[2]
              = WeightSum(signals[1], 2 <= segments /\ segments <= 4, signals[3])

\* ------------------------------------------------ claims on the crawl
\* C16: when the seed answers 200 and has no link, the finished domain crawl
\* has seen_urls = {seed} and results = {seed} if the seed is classified as a
\* product and {} if not, with the package crawler and with the standalone one
LeafSeedIsCrawledAlone ==
    \A k \in DOMAIN configs :
        LET seed == StartUrl(configs[k])
        IN  ( /\ site[k] = "done"
              /\ SeedTask(k) \in DOMAIN tasks
              /\ ~FetchFails(seed)
              /\ web[seed].anchors = {} )
            => /\ seen_urls[Domain(k)] = {seed}
               /\ results[Domain(k)] = IF IsProductPage(seed) THEN {seed} ELSE {}

\* C16 witness: the standalone crawler has finished a domain whose seed has no
\* link and is a product page
LeafSeedWitness ==
    \E k \in DOMAIN configs :
        /\ impl = "standalone"
        /\ site[k] = "done"
        /\ web[StartUrl(configs[k])].anchors = {}
        /\ results[Domain(k)] = {StartUrl(configs[k])}

\* C17 (as claimed): save_results does not raise; when the write to the primary
\* path failed, the failure is logged and the fallback path holds the map of
\* results, or the second failure is logged too; and get_statistics, called
\* next, returns the statistics of the run
SaveFallsBack ==
    /\ run.pc # "raised"
    /\ (run.pc \in {"saved", "reported"} /\ "saved primary" \notin Range(run.log))
       => /\ "error primary" \in Range(run.log)
          /\ \/ /\ "fallback" \in DOMAIN run.files
                /\ Len(run.files["fallback"].doc) = 1
                /\ LET dict == run.files["fallback"].doc[1]
                   IN  /\ DOMAIN dict = DOMAIN results
                       /\ \A d \in DOMAIN results : Range(dict[d]) = results[d]
             \/ "error fallback" \in Range(run.log)
    /\ run.pc = "reported" => run.stats = Statistics

\* C18: a URL in results answered 200 and was classified as a product by the
\* call that fetched it; and when the domain crawl has returned, every URL of
\* seen_urls that answered 200 and is classified as a product is in results
ProductsAreTheClassified ==
    \A k \in DOMAIN configs :
        Domain(k) \in DOMAIN results =>
            /\ \A u \in results[Domain(k)] :
                  /\ ~FetchFails(u)
                  /\ IsProductPage(u)
                  /\ \E t \in TasksOf(k) :
                        TaskUrl(t) = u /\ tasks[t].outcome = "classified"
            /\ site[k] = "done" =>
                  \A u \in seen_urls[Domain(k)] :
                      (~FetchFails(u) /\ IsProductPage(u)) => u \in results[Domain(k)]

\* C18 witness: a finished domain crawl with a product URL in results, a seen
\* URL that answered 200 and is no product, and a seen URL whose fetch failed
ClassifiedWitness ==
    \E k \in DOMAIN configs :
        /\ site[k] = "done"
        /\ Domain(k) \in DOMAIN results
        /\ results[Domain(k)] # {}
        /\ \E u \in seen_urls[Domain(k)] : ~FetchFails(u) /\ ~IsProductPage(u)
        /\ \E u \in seen_urls[Domain(k)] : FetchFails(u)

\* C21: every _crawl_page call made for a link has the host of the page the
\* link was found on, so every URL in a domain's seen_urls has the host of the
\* domain's seed, and no URL of another host is ever requested
OnlySameHostLinks ==
    /\ \A t \in DOMAIN tasks :
          /\ TaskUrl(t)[1] = Domain(t.cfg)
          /\ \A n \in 1..Len(t.path) : t.path[n][1] = StartUrl(configs[t.cfg])[1]
    /\ \A k \in DOMAIN configs :
          Domain(k) \in DOMAIN seen_urls =>
              \A u \in seen_urls[Domain(k)] : u[1] = StartUrl(configs[k])[1]
    /\ \A u \in Url :
          fetched[u] > 0 => \E k \in DOMAIN configs : u[1] = Domain(k)

\* C21 witness: a finished domain crawl whose seed links to a page of another
\* host and to pages of its own: those were fetched, that one was not
SameHostWitness ==
    \E k \in DOMAIN configs :
        /\ site[k] = "done"
        /\ SeedTask(k) \in DOMAIN tasks
        /\ tasks[SeedTask(k)].outcome = "classified"
        /\ \E u \in web[StartUrl(configs[k])].anchors :
              u[1] # Domain(k) /\ fetched[u] = 0
        /\ \E u \in web[StartUrl(configs[k])].anchors :
              u[1] = Domain(k) /\ fetched[u] = 1 /\ u \in seen_urls[Domain(k)]

\* C22: what get_statistics returned after crawl() has one entry for every
\* configured domain, failed or not, with product_urls the size of the domain's
\* results and total_pages_crawled the size of its seen_urls, the first at most
\* the second; and the call of get_statistics changes neither dict
StatisticsAreTheSizes ==
    /\ [](run.pc = "reported"
            => /\ DOMAIN run.stats = {Domain(k) : k \in DOMAIN configs}
               /\ \A d \in DOMAIN run.stats :
                     /\ run.stats[d].product_urls = Cardinality(results[d])
                     /\ run.stats[d].total_pages_crawled = Cardinality(seen_urls[d])
                     /\ run.stats[d].product_urls <= run.stats[d].total_pages_crawled)
    /\ [][GetStatistics => UNCHANGED <<results, seen_urls>>]_vars

\* C22 witness: get_statistics has returned for a run in which one domain's
\* _crawl_site failed, another's seed fetch failed and a third has a product
StatisticsWitness ==
    /\ run.pc = "reported"
    /\ \E k1, k2, k3 \in DOMAIN configs :
          /\ SiteFailed(k1)
          /\ run.stats[Domain(k1)].total_pages_crawled = 0
          /\ SeedTask(k2) \in DOMAIN tasks
          /\ tasks[SeedTask(k2)].outcome = "failed"
          /\ run.stats[Domain(k2)].total_pages_crawled = 1
          /\ run.stats[Domain(k2)].product_urls = 0
          /\ run.stats[Domain(k3)].product_urls >= 1

====
